---- MODULE Spec2Model ----
(***************************************************************************)
(* Model of the navigation dashboard: the D1-backed NavigationAPI (entity  *)
(* store and bulk ordering), its HTTP router, the token gate, and the      *)
(* reorder controller of the React client.                                 *)
(***************************************************************************)
EXTENDS Integers, Sequences, FiniteSets, TLC

(* ------------------------------ bounds -------------------------------- *)
MaxGroups == 2
MaxSites == 2
MaxOrder == 1
MaxBatch == 2

GroupIds == 1..MaxGroups
SiteIds == 1..MaxSites
OrderVals == 0..MaxOrder
\* JSON null bound to the NOT NULL column order_num: never stored.
Null == MaxOrder + 1

VARIABLES
    groups,       \* table groups: id -> [order_num]
    sites,        \* table sites:  id -> [group_id, order_num]
    nextGroupId,  \* AUTOINCREMENT counter of groups
    nextSiteId,   \* AUTOINCREMENT counter of sites
    txn,          \* the transaction D1 is running, with its working copy
    last,         \* the request the router handled last, with its response
    calls,        \* per session: its request to the router and how far it is
    env,          \* the Worker's bindings AUTH_ENABLED, AUTH_USERNAME, ...
    now,          \* Date.now(), in milliseconds
    ui,           \* per session: the state of its dashboard (App, GroupCard)
    mock          \* the arrays mockGroups and mockSites of the development store

storeVars == <<groups, sites, nextGroupId, nextSiteId>>

\* What a request that only touches the store leaves alone.
hostVars == <<env, now, ui, mock>>

vars == <<groups, sites, nextGroupId, nextSiteId, txn, last, calls, env, now, ui,
         mock>>

Sessions == {"A", "B"}

NoRequest == [route |-> "none", pc |-> "done"]

NoTxn == [owner |-> "none"]

\* A binding that is not set reads as undefined.
Undefined == "undefined"

EnvUnset == [AUTH_ENABLED |-> Undefined, AUTH_USERNAME |-> Undefined,
             AUTH_PASSWORD |-> Undefined, AUTH_SECRET |-> Undefined]

\* No dashboard is open.
NoUi == [s \in Sessions |-> [open |-> FALSE]]

\* mockGroups and mockSites as the module starts with them.
MockData ==
    [groups |-> <<[id |-> 1, order_num |-> 1], [id |-> 2, order_num |-> 2]>>,
     sites |-> <<[id |-> 1, group_id |-> 1, order_num |-> 1],
                 [id |-> 2, group_id |-> 1, order_num |-> 2]>>]

\* A deployment without auth bindings and without dashboards.
BareHost == env = EnvUnset /\ now = 0 /\ ui = NoUi /\ mock = MockData

(* ----------------------------- helpers -------------------------------- *)
Range(s) == {s[i] : i \in DOMAIN s}

Restrict(f, S) == [x \in S |-> f[x]]

Extend(f, k, v) == [x \in DOMAIN f \cup {k} |-> IF x = k THEN v ELSE f[x]]

\* A row as a SELECT returns it: the id with the other columns.
Row(tbl, id) == [id |-> id] @@ tbl[id]

Ids(rows) == [i \in DOMAIN rows |-> rows[i].id]

\* The rows in any order: a SELECT without ORDER BY.
OrderByOrderNum_Unordered(tbl, ids) ==
    LET n == Cardinality(ids) IN
    {[i \in 1..n |-> Row(tbl, s[i])] :
        s \in {q \in [1..n -> ids] : \A i, j \in 1..n : i # j => q[i] # q[j]}}

\* All orders of the rows `ids` that ORDER BY order_num may produce: rows
\* with the same order_num come in whatever order the engine picks.
OrderByOrderNum(tbl, ids) ==
    LET n == Cardinality(ids) IN
    {[i \in 1..n |-> Row(tbl, s[i])] :
        s \in {q \in [1..n -> ids] :
                 /\ \A i, j \in 1..n : i # j => q[i] # q[j]
                 /\ \A i, j \in 1..n :
                       i < j => tbl[q[i]].order_num <= tbl[q[j]].order_num}}

(* --------------------------- NavigationAPI ---------------------------- *)
getGroups(g) == OrderByOrderNum(g, DOMAIN g)

getSites(s, groupId) ==
    OrderByOrderNum(s, {i \in DOMAIN s : s[i].group_id = groupId})

\* One "UPDATE t SET order_num = ? WHERE id = ?": a missing id matches no
\* row and is not an error; NULL violates NOT NULL on a matched row.
UpdateOrderFails(tbl, item) ==
    item.id \in DOMAIN tbl /\ item.order_num = Null

UpdateOrderStmt(tbl, item) ==
    IF item.id \in DOMAIN tbl
    THEN [tbl EXCEPT ![item.id].order_num = item.order_num]
    ELSE tbl

\* The statements of a batch run in sequence until one fails.
RECURSIVE RunStmts(_, _)
RunStmts(tbl, items) ==
    IF items = <<>> THEN [ok |-> TRUE, tbl |-> tbl]
    ELSE IF UpdateOrderFails(tbl, Head(items)) THEN [ok |-> FALSE, tbl |-> tbl]
    ELSE RunStmts(UpdateOrderStmt(tbl, Head(items)), Tail(items))

batch_NoRollback(tbl, items) == RunStmts(tbl, items)

\* D1 db.batch: one transaction, rolled back when a statement fails.
batch(tbl, items) ==
    LET r == RunStmts(tbl, items) IN
    IF r.ok THEN r ELSE [ok |-> FALSE, tbl |-> tbl]

\* .then(() => true).catch(() => false)
updateGroupOrder(g, groupOrders) == batch(g, groupOrders)

updateSiteOrder(s, siteOrders) == batch(s, siteOrders)

(* ------------------------------ inputs -------------------------------- *)
Assignments(ids) == [id : ids, order_num : OrderVals \cup {Null}]

Batches(ids) == UNION {[1..n -> Assignments(ids)] : n \in 0..MaxBatch}

OrderRequest(route, data) == [route |-> route, data |-> data, pc |-> "sent"]

SitePatches ==
    {<<>>} \cup [group_id : GroupIds] \cup [order_num : OrderVals]
           \cup [group_id : GroupIds, order_num : OrderVals]

(* ------------------------------- router ------------------------------- *)
RouteGetGroups ==
    /\ \E body \in getGroups(groups) :
          last' = [route |-> "GET groups", status |-> 200, body |-> body]
    /\ UNCHANGED <<groups, sites, nextGroupId, nextSiteId>>

RouteGetSites(groupId) ==
    /\ \E body \in getSites(sites, groupId) :
          last' = [route |-> "GET sites", groupId |-> groupId,
                   status |-> 200, body |-> body]
    /\ UNCHANGED <<groups, sites, nextGroupId, nextSiteId>>

\* GET groups/:id and GET sites/:id: first() gives the row or null.
RouteGetGroup(id) ==
    /\ last' = [route |-> "GET group", id |-> id, status |-> 200,
                found |-> id \in DOMAIN groups]
    /\ UNCHANGED <<groups, sites, nextGroupId, nextSiteId>>

RouteGetSite(id) ==
    /\ last' = [route |-> "GET site", id |-> id, status |-> 200,
                found |-> id \in DOMAIN sites]
    /\ UNCHANGED <<groups, sites, nextGroupId, nextSiteId>>

\* POST groups: INSERT INTO groups (name, order_num). A field that is not
\* there cannot be bound and NULL violates NOT NULL; the empty string is a
\* value like any other.
RoutePostGroups(data) ==
    /\ nextGroupId <= MaxGroups
    /\ IF data.name = Undefined \/ data.order_num = Null
       THEN /\ last' = [route |-> "POST groups", data |-> data, status |-> 500]
            /\ UNCHANGED <<groups, nextGroupId>>
       ELSE /\ groups' = Extend(groups, nextGroupId, [order_num |-> data.order_num])
            /\ nextGroupId' = nextGroupId + 1
            /\ last' = [route |-> "POST groups", data |-> data, status |-> 200,
                        id |-> nextGroupId]
    /\ UNCHANGED <<sites, nextSiteId>>

RoutePutGroup(id, order_num) ==
    /\ IF id \in DOMAIN groups
       THEN /\ groups' = [groups EXCEPT ![id].order_num = order_num]
            /\ last' = [route |-> "PUT groups", id |-> id, status |-> 200,
                        found |-> TRUE]
       ELSE /\ UNCHANGED groups
            /\ last' = [route |-> "PUT groups", id |-> id, status |-> 200,
                        found |-> FALSE]
    /\ UNCHANGED <<sites, nextGroupId, nextSiteId>>

RouteDeleteGroup(id) ==
    /\ groups' = Restrict(groups, DOMAIN groups \ {id})
    /\ sites' = Restrict(sites, {i \in DOMAIN sites : sites[i].group_id # id})
    /\ last' = [route |-> "DELETE groups", id |-> id, status |-> 200,
                success |-> TRUE]
    /\ UNCHANGED <<nextGroupId, nextSiteId>>

\* POST sites: INSERT INTO sites (group_id, name, url, ...), with the
\* FOREIGN KEY on group_id.
RoutePostSites(data) ==
    /\ nextSiteId <= MaxSites
    /\ IF \/ data.name = Undefined \/ data.url = Undefined
          \/ data.order_num = Null \/ data.group_id \notin DOMAIN groups
       THEN /\ last' = [route |-> "POST sites", data |-> data, status |-> 500]
            /\ UNCHANGED <<sites, nextSiteId>>
       ELSE /\ sites' = Extend(sites, nextSiteId,
                               [group_id |-> data.group_id,
                                order_num |-> data.order_num])
            /\ nextSiteId' = nextSiteId + 1
            /\ last' = [route |-> "POST sites", data |-> data, status |-> 200,
                        id |-> nextSiteId]
    /\ UNCHANGED <<groups, nextGroupId>>

RoutePutSite(id, site) ==
    /\ IF id \notin DOMAIN sites
       THEN /\ UNCHANGED sites
            /\ last' = [route |-> "PUT sites", id |-> id, status |-> 200,
                        found |-> FALSE]
       ELSE IF "group_id" \in DOMAIN site /\ site.group_id \notin DOMAIN groups
       THEN /\ UNCHANGED sites
            /\ last' = [route |-> "PUT sites", id |-> id, status |-> 500]
       ELSE /\ sites' = [sites EXCEPT ![id] =
                           [f \in {"group_id", "order_num"} |->
                               IF f \in DOMAIN site THEN site[f] ELSE @[f]]]
            /\ last' = [route |-> "PUT sites", id |-> id, status |-> 200,
                        found |-> TRUE]
    /\ UNCHANGED <<groups, nextGroupId, nextSiteId>>

RouteDeleteSite(id) ==
    /\ sites' = Restrict(sites, DOMAIN sites \ {id})
    /\ last' = [route |-> "DELETE sites", id |-> id, status |-> 200,
                success |-> TRUE]
    /\ UNCHANGED <<groups, nextGroupId, nextSiteId>>

RoutePutGroupOrders(data) ==
    /\ LET r == updateGroupOrder(groups, data) IN
          /\ groups' = r.tbl
          /\ last' = [route |-> "PUT group-orders", data |-> data,
                      status |-> 200, success |-> r.ok]
    /\ UNCHANGED <<sites, nextGroupId, nextSiteId>>

RoutePutSiteOrders(data) ==
    /\ LET r == updateSiteOrder(sites, data) IN
          /\ sites' = r.tbl
          /\ last' = [route |-> "PUT site-orders", data |-> data,
                      status |-> 200, success |-> r.ok]
    /\ UNCHANGED <<groups, nextGroupId, nextSiteId>>

(* -------------------- the ordering engine on its own ------------------- *)
\* Tables the CRUD routes can build: rows with ids below the counters,
\* every site attached to an existing group (FOREIGN KEY).
GroupTables ==
    UNION {[D -> [order_num : OrderVals]] : D \in SUBSET GroupIds}

SiteTables(g) ==
    UNION {[D -> [group_id : DOMAIN g, order_num : OrderVals]] :
              D \in SUBSET SiteIds}

AllGroups == [id \in GroupIds |-> [order_num |-> 0]]

\* One reorder request is on its way to the router: a group batch against
\* any groups table, or a site batch against any sites table.
InitOrder ==
    /\ \/ /\ groups \in GroupTables
          /\ sites = <<>>
          /\ \E b \in Batches(GroupIds) :
                calls = [s \in Sessions |->
                           IF s = "A" THEN OrderRequest("PUT group-orders", b)
                           ELSE NoRequest]
       \/ /\ groups = AllGroups
          /\ sites \in SiteTables(groups)
          /\ \E b \in Batches(SiteIds) :
                calls = [s \in Sessions |->
                           IF s = "A" THEN OrderRequest("PUT site-orders", b)
                           ELSE NoRequest]
    /\ nextGroupId = MaxGroups + 1
    /\ nextSiteId = MaxSites + 1
    /\ txn = NoTxn
    /\ last = [route |-> "init", status |-> 200]
    /\ BareHost

ServeGroupOrders(s) ==
    /\ calls[s].route = "PUT group-orders" /\ calls[s].pc = "sent"
    /\ RoutePutGroupOrders(calls[s].data)
    /\ calls' = [calls EXCEPT ![s].pc = "done"]
    /\ UNCHANGED <<txn, hostVars>>

ServeSiteOrders(s) ==
    /\ calls[s].route = "PUT site-orders" /\ calls[s].pc = "sent"
    /\ RoutePutSiteOrders(calls[s].data)
    /\ calls' = [calls EXCEPT ![s].pc = "done"]
    /\ UNCHANGED <<txn, hostVars>>

NextOrder ==
    \/ \E s \in Sessions : ServeGroupOrders(s)
    \/ \E s \in Sessions : ServeSiteOrders(s)

SpecOrder == InitOrder /\ [][NextOrder]_vars

(* ------------------------ ordering: properties ------------------------ *)
SitesOf(s, g) == {i \in DOMAIN s : s[i].group_id = g}

\* The assignments name every member of the scope exactly once and give
\* them the positions 0..n-1.
CoversScope(data, scope) ==
    /\ Len(data) = Cardinality(scope)
    /\ {data[i].id : i \in DOMAIN data} = scope
    /\ {data[i].order_num : i \in DOMAIN data} = 0..(Len(data) - 1)

\* The ids of the assignments, arranged by the position each one asks for.
SubmittedOrder(data) ==
    [k \in 1..Len(data) |->
        data[CHOOSE i \in DOMAIN data : data[i].order_num = k - 1].id]

\* C1: after a reorder that returned success and whose assignments cover
\* exactly the membership of a scope (all groups, or the sites of one group)
\* with a permutation of 0..n-1, listing the scope returns the entities in
\* exactly the submitted order.
C1_ReorderThenList ==
    /\ (last.route = "PUT group-orders" /\ last.success
          /\ CoversScope(last.data, DOMAIN groups))
        => {Ids(r) : r \in getGroups(groups)} = {SubmittedOrder(last.data)}
    /\ \A g \in GroupIds :
         (last.route = "PUT site-orders" /\ last.success
            /\ CoversScope(last.data, SitesOf(sites, g)))
         => {Ids(r) : r \in getSites(sites, g)} = {SubmittedOrder(last.data)}

\* A full reorder of two members that puts the younger one first.
C1_Witness ==
    \/ /\ last.route = "PUT group-orders" /\ last.success
       /\ CoversScope(last.data, DOMAIN groups)
       /\ {Ids(r) : r \in getGroups(groups)} = {<<2, 1>>}
    \/ /\ last.route = "PUT site-orders" /\ last.success
       /\ CoversScope(last.data, SitesOf(sites, 1))
       /\ {Ids(r) : r \in getSites(sites, 1)} = {<<2, 1>>}

\* Some statement of the batch fails on the table.
SomeUpdateFails(tbl, data) ==
    \E i \in DOMAIN data : UpdateOrderFails(tbl, data[i])

\* Every assignment is in effect: a row named by the batch holds the value
\* of the last assignment that names it, every other row is as it was.
AllApplied(old, new, data) ==
    /\ DOMAIN new = DOMAIN old
    /\ \A id \in DOMAIN old :
         LET at == {i \in DOMAIN data : data[i].id = id} IN
         IF at = {} THEN new[id] = old[id]
         ELSE LET i == CHOOSE k \in at : \A m \in at : m <= k IN
              new[id] = [old[id] EXCEPT !.order_num = data[i].order_num]

BatchAllOrNothing(old, new, data, success) ==
    IF SomeUpdateFails(old, data)
    THEN new = old /\ ~success
    ELSE AllApplied(old, new, data) /\ success

\* C2: a reorder batch is all-or-nothing: the store ends with every
\* assignment applied, or, when any row update fails, with no order_num
\* changed and the result false.
C2_BatchAllOrNothing ==
    [][/\ last'.route = "PUT group-orders"
          => BatchAllOrNothing(groups, groups', last'.data, last'.success)
       /\ last'.route = "PUT site-orders"
          => BatchAllOrNothing(sites, sites', last'.data, last'.success)]_vars

\* A batch failed after an earlier statement had matched a row, and the
\* store holds a row whose order_num differs from what that statement set.
C2_Witness ==
    /\ last.route \in {"PUT group-orders", "PUT site-orders"}
    /\ ~last.success
    /\ Len(last.data) = 2
    /\ last.data[1].order_num # Null
    /\ LET tbl == IF last.route = "PUT group-orders" THEN groups ELSE sites IN
       /\ last.data[1].id \in DOMAIN tbl
       /\ tbl[last.data[1].id].order_num # last.data[1].order_num

\* The batch names an id outside every scope of the table: an id with no
\* row, or (sites) ids that belong to different groups.
OutOfScopeGroups(g, data) ==
    \E i \in DOMAIN data : data[i].id \notin DOMAIN g

OutOfScopeSites(s, data) ==
    \/ \E i \in DOMAIN data : data[i].id \notin DOMAIN s
    \/ \E i, j \in DOMAIN data :
          /\ data[i].id \in DOMAIN s /\ data[j].id \in DOMAIN s
          /\ s[data[i].id].group_id # s[data[j].id].group_id

\* C3: a reorder whose assignments name an id that is not a member of the
\* scope fails the whole batch: it reports failure and no order_num changes.
C3_OutOfScopeFails ==
    [][/\ (last'.route = "PUT group-orders"
             /\ OutOfScopeGroups(groups, last'.data))
          => (~last'.success /\ groups' = groups)
       /\ (last'.route = "PUT site-orders"
             /\ OutOfScopeSites(sites, last'.data))
          => (~last'.success /\ sites' = sites)]_vars

\* The rows named by the batch belong to more than one group.
SpansGroups(s, data) ==
    \E i, j \in DOMAIN data :
        /\ data[i].id \in DOMAIN s /\ data[j].id \in DOMAIN s
        /\ s[data[i].id].group_id # s[data[j].id].group_id

\* C24: a site-orders batch whose ids belong to more than one group is not
\* applied, and the sites whose order_num one call changes all belong to
\* one group.
C24_OneGroupPerBatch ==
    [][last'.route = "PUT site-orders"
          => /\ SpansGroups(sites, last'.data)
                => (~last'.success /\ sites' = sites)
             /\ \A a, b \in DOMAIN sites :
                   (/\ sites'[a].order_num # sites[a].order_num
                    /\ sites'[b].order_num # sites[b].order_num)
                   => sites[a].group_id = sites[b].group_id]_vars

(* ------------------- concurrent reorder batches (D1) ------------------- *)
\* A statement inside a db.batch transaction writes to the transaction's
\* copy: the committed table stays as it is until the commit.
WriteThrough_Autocommit(tbl, work) == work

WriteThrough(tbl, work) == tbl

TableOf(route) == IF route = "PUT group-orders" THEN groups ELSE sites

SetTable(route, tbl) ==
    IF route = "PUT group-orders"
    THEN groups' = tbl /\ UNCHANGED sites
    ELSE sites' = tbl /\ UNCHANGED groups

IsOrderRoute(route) == route \in {"PUT group-orders", "PUT site-orders"}

\* D1 runs one transaction at a time.
BatchBegin(s) ==
    /\ calls[s].pc = "sent" /\ IsOrderRoute(calls[s].route)
    /\ txn = NoTxn
    /\ txn' = [owner |-> s, route |-> calls[s].route,
               todo |-> calls[s].data, work |-> TableOf(calls[s].route)]
    /\ calls' = [calls EXCEPT ![s].pc = "running"]
    /\ UNCHANGED <<storeVars, last, hostVars>>

BatchStep ==
    /\ txn # NoTxn /\ txn.todo # <<>>
    /\ ~UpdateOrderFails(txn.work, Head(txn.todo))
    /\ LET work == UpdateOrderStmt(txn.work, Head(txn.todo)) IN
          /\ txn' = [txn EXCEPT !.work = work, !.todo = Tail(@)]
          /\ SetTable(txn.route, WriteThrough(TableOf(txn.route), work))
    /\ UNCHANGED <<nextGroupId, nextSiteId, last, calls, hostVars>>

\* A failed statement ends the transaction without a commit; .catch(() => false)
BatchAbort ==
    /\ txn # NoTxn /\ txn.todo # <<>>
    /\ UpdateOrderFails(txn.work, Head(txn.todo))
    /\ txn' = NoTxn
    /\ last' = [route |-> txn.route, data |-> calls[txn.owner].data,
                status |-> 200, success |-> FALSE]
    /\ calls' = [calls EXCEPT ![txn.owner].pc = "done"]
    /\ UNCHANGED <<storeVars, hostVars>>

\* .then(() => true)
BatchCommit ==
    /\ txn # NoTxn /\ txn.todo = <<>>
    /\ SetTable(txn.route, txn.work)
    /\ txn' = NoTxn
    /\ last' = [route |-> txn.route, data |-> calls[txn.owner].data,
                status |-> 200, success |-> TRUE]
    /\ calls' = [calls EXCEPT ![txn.owner].pc = "done"]
    /\ UNCHANGED <<nextGroupId, nextSiteId, hostVars>>

\* The batch handleSaveGroupOrder / handleSaveSiteOrder builds from a list:
\* order_num is the index in the list.
SaveOrders(list) == [i \in DOMAIN list |-> [id |-> list[i], order_num |-> i - 1]]

DistinctSeqs(ids) ==
    {q \in UNION {[1..n -> ids] : n \in 0..Cardinality(ids)} :
        \A i, j \in DOMAIN q : i # j => q[i] # q[j]}

ClientBatches(ids) == {SaveOrders(q) : q \in DistinctSeqs(ids)}

\* The same batches with null as the last order_num.
FaultyBatches(ids) ==
    {[b EXCEPT ![Len(b)].order_num = Null] : b \in ClientBatches(ids) \ {<<>>}}

AllSites == [id \in SiteIds |-> [group_id |-> 1, order_num |-> 0]]

\* Two sessions have each sent a reorder batch for the same scope: session
\* B one built by the dashboard, session A one that may also carry a null.
InitTxn ==
    /\ groups = AllGroups
    /\ \/ /\ sites = <<>>
          /\ \E a \in ClientBatches(GroupIds) \cup FaultyBatches(GroupIds),
                b \in ClientBatches(GroupIds) :
                calls = [s \in Sessions |->
                           OrderRequest("PUT group-orders",
                                        IF s = "A" THEN a ELSE b)]
       \/ /\ sites = AllSites
          /\ \E a \in ClientBatches(SiteIds) \cup FaultyBatches(SiteIds),
                b \in ClientBatches(SiteIds) :
                calls = [s \in Sessions |->
                           OrderRequest("PUT site-orders",
                                        IF s = "A" THEN a ELSE b)]
    /\ nextGroupId = MaxGroups + 1
    /\ nextSiteId = MaxSites + 1
    /\ txn = NoTxn
    /\ last = [route |-> "init", status |-> 200]
    /\ BareHost

ReadGroups == RouteGetGroups /\ UNCHANGED <<txn, calls, hostVars>>

ReadSites(g) == RouteGetSites(g) /\ UNCHANGED <<txn, calls, hostVars>>

NextTxn ==
    \/ \E s \in Sessions : BatchBegin(s)
    \/ BatchStep
    \/ BatchAbort
    \/ BatchCommit
    \/ ReadGroups
    \/ \E g \in GroupIds : ReadSites(g)

SpecTxn == InitTxn /\ [][NextTxn]_vars

\* The tables a reader may see when the two batches a and b apply to the
\* table `origin` as indivisible units, and the two possible final tables.
Serial(origin, a, b) == batch(batch(origin, a).tbl, b).tbl

BatchConsistent(origin, a, b) ==
    {origin, batch(origin, a).tbl, batch(origin, b).tbl,
     Serial(origin, a, b), Serial(origin, b, a)}

MaxTicks == 2

\* 24 * 60 * 60 seconds
TokenTTL == 24 * 60 * 60

\* The values of Date.now() the model looks at: half-second steps from the
\* start and from one token lifetime later.
Instants == {b + k * 500 : b \in {0, TokenTTL * 1000}, k \in 0..MaxTicks}

\* x || d
OrDefault(x, d) == IF x \in {Undefined, ""} THEN d ELSE x

\* The built-in secret: a text outside Latin1.
DefaultSecret == "default secret (CJK text)"

\* new NavigationAPI(env)
authEnabled(e) == e.AUTH_ENABLED = "true"

apiUsername(e) == OrDefault(e.AUTH_USERNAME, "")

apiPassword(e) == OrDefault(e.AUTH_PASSWORD, "")

apiSecret(e) == OrDefault(e.AUTH_SECRET, DefaultSecret)

\* An exception on its way up the stack.
Thrown == [kind |-> "thrown"]

\* Parts of a token: the empty string, a text that is not base64 of JSON,
\* and the base64 of a text.
Empty == [kind |-> "empty"]

Garbage == [kind |-> "garbage"]

IsLatin1(text) == text.kind # "concat" \/ text.secret # DefaultSecret

\* btoa throws InvalidCharacterError on a character above U+00FF.
btoa(text) == IF IsLatin1(text) THEN [kind |-> "b64", of |-> text] ELSE Thrown

\* atob throws on a text that is not base64.
atob(part) == IF part.kind = "b64" THEN part.of ELSE Thrown

JSONstringify(value) == [kind |-> "json", value |-> value]

\* JSON.parse throws on a text that is not JSON.
JSONparse(text) == IF text.kind = "json" THEN text.value ELSE Thrown

\* secret + '.' + base64Header + '.' + base64Payload
Concat(sec, h, p) == [kind |-> "concat", secret |-> sec, header |-> h, payload |-> p]

\* `${base64Header}.${base64Payload}.${signature}`, and back by split('.')
Token(h, p, sig) == [header |-> h, payload |-> p, signature |-> sig]

\* generateToken with a lifetime that lost a factor 60
generateToken_ShortLived(e, t, payload) ==
    LET header == [alg |-> "HS256", typ |-> "JWT"]
        tokenPayload == [exp |-> (t \div 1000) + 24 * 60, iat |-> t \div 1000]
                          @@ payload
        base64Header == btoa(JSONstringify(header))
        base64Payload == btoa(JSONstringify(tokenPayload))
        signature == btoa(Concat(apiSecret(e), base64Header, base64Payload))
    IN  IF signature = Thrown THEN Thrown
        ELSE Token(base64Header, base64Payload, signature)

generateToken(e, t, payload) ==
    LET header == [alg |-> "HS256", typ |-> "JWT"]
        tokenPayload == [exp |-> (t \div 1000) + TokenTTL, iat |-> t \div 1000]
                          @@ payload
        base64Header == btoa(JSONstringify(header))
        base64Payload == btoa(JSONstringify(tokenPayload))
        signature == btoa(Concat(apiSecret(e), base64Header, base64Payload))
    IN  IF signature = Thrown THEN Thrown
        ELSE Token(base64Header, base64Payload, signature)

Falsy(part) == part = Empty

\* exp && exp < Date.now() / 1000
Expired(decodedPayload, t) ==
    /\ "exp" \in DOMAIN decodedPayload
    /\ decodedPayload.exp # 0
    /\ decodedPayload.exp * 1000 < t

verifyToken(e, t, token) ==
    IF ~authEnabled(e) THEN [valid |-> TRUE]
    ELSE IF Falsy(token.header) \/ Falsy(token.payload) \/ Falsy(token.signature)
         THEN [valid |-> FALSE]
    ELSE IF atob(token.payload) = Thrown \/ JSONparse(atob(token.payload)) = Thrown
         THEN [valid |-> FALSE]
    ELSE LET decodedPayload == JSONparse(atob(token.payload)) IN
         IF Expired(decodedPayload, t) THEN [valid |-> FALSE]
         ELSE [valid |-> TRUE, payload |-> decodedPayload]

Issue(e, t, name) ==
    LET token == generateToken(e, t, [username |-> name]) IN
    IF token = Thrown THEN Thrown
    ELSE [success |-> TRUE, token |-> token]

\* login that forgets the password
login_UsernameOnly(e, t, loginRequest) ==
    IF ~authEnabled(e) THEN Issue(e, t, "guest")
    ELSE IF loginRequest.username = apiUsername(e)
         THEN Issue(e, t, loginRequest.username)
    ELSE [success |-> FALSE]

login(e, t, loginRequest) ==
    IF ~authEnabled(e) THEN Issue(e, t, "guest")
    ELSE IF /\ loginRequest.username = apiUsername(e)
            /\ loginRequest.password = apiPassword(e)
         THEN Issue(e, t, loginRequest.username)
    ELSE [success |-> FALSE]

(* ------------------- login and verifyToken on their own ---------------- *)
Envs ==
    [AUTH_ENABLED : {Undefined, "false", "true"},
     AUTH_USERNAME : {Undefined, "admin"},
     AUTH_PASSWORD : {Undefined, "hunter2"},
     AUTH_SECRET : {Undefined, "s3cret"}]

LoginRequests == [username : {"", "admin", "guest"}, password : {"", "hunter2"}]

\* Tokens generateToken makes with some secret at some instant.
SignedTokens(secrets) ==
    {generateToken([EnvUnset EXCEPT !.AUTH_SECRET = k], t, [username |-> u]) :
        k \in secrets, t \in Instants, u \in {"admin", "guest"}}

\* A signed token whose payload was swapped for another one.
Tampered(token) ==
    {[token EXCEPT !.payload = btoa(JSONstringify(p))] :
        p \in {[username |-> "admin"],
               [username |-> "admin", exp |-> 0],
               [username |-> "admin", exp |-> 1, iat |-> 0],
               [username |-> "admin", exp |-> 2 * TokenTTL, iat |-> 0]}}

Malformed ==
    {Token(h, p, sig) : h \in {Empty, btoa(JSONstringify([alg |-> "HS256", typ |-> "JWT"]))},
                        p \in {Empty, Garbage, btoa(Garbage)},
                        sig \in {Empty, Garbage}}

\* What a caller may present as a token.
Tokens ==
    LET signed == SignedTokens({"s3cret", "other"}) IN
    signed \cup UNION {Tampered(token) : token \in signed} \cup Malformed

InitAuth ==
    /\ env \in Envs
    /\ now = 0
    /\ groups = <<>> /\ sites = <<>>
    /\ nextGroupId = 1 /\ nextSiteId = 1
    /\ txn = NoTxn
    /\ calls = [s \in Sessions |-> NoRequest]
    /\ ui = NoUi /\ mock = MockData
    /\ last = [route |-> "init", status |-> 200]

Login(loginRequest) ==
    /\ last' = [route |-> "login", request |-> loginRequest, at |-> now,
                result |-> login(env, now, loginRequest)]
    /\ UNCHANGED <<storeVars, txn, calls, hostVars>>

VerifyToken(token) ==
    /\ last' = [route |-> "verifyToken", token |-> token, at |-> now,
                result |-> verifyToken(env, now, token)]
    /\ UNCHANGED <<storeVars, txn, calls, hostVars>>

Tick ==
    /\ \E t \in Instants : t > now /\ now' = t
    /\ UNCHANGED <<storeVars, txn, calls, last, env, ui, mock>>

NextAuth ==
    \/ \E loginRequest \in LoginRequests : Login(loginRequest)
    \/ \E token \in Tokens : VerifyToken(token)
    \/ Tick

SpecAuth == InitAuth /\ [][NextAuth]_vars

\* The payload of a token, when it decodes.
Decodes(token) ==
    /\ token.payload.kind = "b64"
    /\ token.payload.of.kind = "json"

Claims(token) == token.payload.of.value

\* C7: with the gate enabled, verifyToken accepts a token only if its
\* signature is the one the server secret gives for the token's header and
\* payload; a token signed otherwise, or with a swapped payload, is rejected.
C7_SignatureChecked ==
    (/\ last.route = "verifyToken"
     /\ authEnabled(env)
     /\ last.result.valid)
    => last.token.signature
         = btoa(Concat(apiSecret(env), last.token.header, last.token.payload))

\* C8: with the gate enabled, verifyToken rejects a token whenever the
\* current time is at or after the token's expiry, the instant now = exp
\* included.
C8_ExpiredRejected ==
    (/\ last.route = "verifyToken"
     /\ authEnabled(env)
     /\ Decodes(last.token)
     /\ "exp" \in DOMAIN Claims(last.token)
     /\ last.at >= Claims(last.token).exp * 1000)
    => ~last.result.valid

\* C9: with the gate disabled, login succeeds for every username and
\* password and returns a token for the guest subject that verifyToken
\* accepts.
C9_GateDisabledLogin ==
    (last.route = "login" /\ ~authEnabled(env))
    => /\ last.result # Thrown
       /\ last.result.success
       /\ "token" \in DOMAIN last.result
       /\ Claims(last.result.token).username = "guest"
       /\ verifyToken(env, now, last.result.token).valid

\* C10: with the gate enabled, login with a username or password that
\* differs from the configured credentials returns success = false and no
\* token; a token is issued only when both match.
C10_WrongCredentials ==
    (last.route = "login" /\ authEnabled(env))
    => LET match == /\ last.request.username = apiUsername(env)
                    /\ last.request.password = apiPassword(env)
       IN  /\ ~match => last.result = [success |-> FALSE]
           /\ (last.result # Thrown /\ "token" \in DOMAIN last.result) => match

\* The username is right and the password is not: login refuses.
C10_Witness ==
    /\ last.route = "login" /\ authEnabled(env)
    /\ last.request.username = apiUsername(env)
    /\ last.request.password # apiPassword(env)
    /\ last.result = [success |-> FALSE]

\* The logins that answer with the given token.
IssuedBy(e, token) ==
    {<<t, r>> \in Instants \X LoginRequests :
        /\ login(e, t, r) # Thrown
        /\ login(e, t, r).success
        /\ login(e, t, r).token = token}

\* C11: a token issued by a successful login expires exactly 24 hours after
\* its issuance (exp = iat + 86400 s), and with the gate enabled verifyToken
\* accepts it at every time t with iat <= t < exp and yields its subject.
C11_IssuedTokenLifetime ==
    (last.route = "verifyToken" /\ authEnabled(env))
    => \A i \in IssuedBy(env, last.token) :
          LET claims == Claims(last.token) IN
          /\ claims.iat = i[1] \div 1000
          /\ claims.exp = claims.iat + 86400
          /\ (claims.iat * 1000 <= last.at /\ last.at < claims.exp * 1000)
             => /\ last.result.valid
                /\ last.result.payload.username = i[2].username

\* A token of a login is accepted close to the end of its lifetime.
C11_Witness ==
    /\ last.route = "verifyToken" /\ authEnabled(env)
    /\ IssuedBy(env, last.token) # {}
    /\ last.at >= TokenTTL * 1000
    /\ last.at < Claims(last.token).exp * 1000
    /\ last.result.valid

(* ---------------------- requests with credentials ---------------------- *)
\* The Authorization header of a request: none, Bearer <token>, or another
\* scheme.
NoHeader == [scheme |-> "none"]

Headers ==
    {NoHeader} \cup [scheme : {"Bearer", "Basic"},
                     token : SignedTokens({"s3cret"}) \cup Malformed]

\* What the header is worth to the gate.
Authorized(e, t, header) ==
    /\ header.scheme = "Bearer"
    /\ verifyToken(e, t, header.token).valid

GatedRequests ==
    {[route |-> "GET groups", authorization |-> h, pc |-> "sent"] : h \in Headers}
    \cup {[route |-> "DELETE groups", id |-> id, authorization |-> h, pc |-> "sent"] :
             id \in GroupIds, h \in Headers}
    \cup {[route |-> "PUT group-orders", data |-> b, authorization |-> h, pc |-> "sent"] :
             b \in ClientBatches(GroupIds), h \in Headers}

\* One request is on its way to a deployment that holds some groups and
\* sites.
InitGate ==
    /\ env \in Envs
    /\ now \in Instants
    /\ groups = AllGroups /\ sites = AllSites
    /\ nextGroupId = MaxGroups + 1 /\ nextSiteId = MaxSites + 1
    /\ txn = NoTxn
    /\ \E r \in GatedRequests :
          calls = [s \in Sessions |-> IF s = "A" THEN r ELSE NoRequest]
    /\ ui = NoUi /\ mock = MockData
    /\ last = [route |-> "init", status |-> 200]

\* onRequest never looks at the request's headers.
ServeGetGroups(s) ==
    /\ calls[s].route = "GET groups" /\ calls[s].pc = "sent"
    /\ RouteGetGroups
    /\ calls' = [calls EXCEPT ![s].pc = "done"]
    /\ UNCHANGED <<txn, hostVars>>

ServeDeleteGroup(s) ==
    /\ calls[s].route = "DELETE groups" /\ calls[s].pc = "sent"
    /\ RouteDeleteGroup(calls[s].id)
    /\ calls' = [calls EXCEPT ![s].pc = "done"]
    /\ UNCHANGED <<txn, hostVars>>

NextGate ==
    \/ \E s \in Sessions : ServeGetGroups(s)
    \/ \E s \in Sessions : ServeDeleteGroup(s)
    \/ \E s \in Sessions : ServeGroupOrders(s)

SpecGate == InitGate /\ [][NextGate]_vars

\* C6: with the gate enabled, a request other than login without a bearer
\* token, with a malformed header, or with an invalid or expired token is
\* answered 401 and neither reads nor writes the store.
C6_GateRejects ==
    [][\A s \in Sessions :
          (/\ calls[s].pc = "sent" /\ calls'[s].pc = "done"
           /\ authEnabled(env)
           /\ ~Authorized(env, now, calls[s].authorization))
          => (last'.status = 401 /\ UNCHANGED storeVars)]_vars

(* ------------------- the dashboard's reorder controller ---------------- *)
\* A move that writes the item over the one at `to` and leaves it at `from`.
arrayMove_Overwrites(list, from, to) ==
    [i \in 1..Len(list) |-> IF i = to THEN list[from] ELSE list[i]]

\* arrayMove of @dnd-kit/sortable: the item at `from` goes to `to`.
arrayMove(list, from, to) ==
    LET item == list[from]
        rest == [i \in 1..(Len(list) - 1) |->
                    IF i < from THEN list[i] ELSE list[i + 1]]
    IN  [i \in 1..Len(list) |->
            IF i < to THEN rest[i]
            ELSE IF i = to THEN item
            ELSE rest[i - 1]]

\* App renders the dashboard, and neither the spinner of the auth check
\* nor the login form.
DashboardShown(u) ==
    /\ ~u.isAuthChecking
    /\ ~(u.isAuthRequired /\ ~u.isAuthenticated)

\* The list is on screen: {!loading && !error && (...)}
ListShown(u) == DashboardShown(u) /\ ~u.loading /\ ~u.error

\* The GroupCards are mounted: the list is on screen and it is not the
\* sortable list of groups.
CardsMounted(u) == ListShown(u) /\ u.sortMode # "GroupSort"

\* useState(group.sites): a card takes its sites when it mounts and keeps
\* them until it unmounts.
\* A drag lives in the DndContext of the sortable list and ends with it.
Render(old, new) ==
    [new EXCEPT
        !.cards =
            IF ~CardsMounted(new) THEN <<>>
            ELSE IF CardsMounted(old) THEN new.cards
            ELSE [i \in DOMAIN new.groups |-> new.groups[i].sites],
        !.dragging = new.dragging /\ ListShown(new) /\ new.sortMode # "None"]

\* The dashboard right after it opened: checkAuthStatus got true from
\* api.checkAuthStatus() and its fetchData is waiting for the groups.
\* `loaded` records what fetchData last handed to setGroups; the component
\* itself keeps no such copy.
OpenedUi ==
    [open |-> TRUE, loading |-> TRUE, error |-> FALSE, groups |-> <<>>,
     sortMode |-> "None", currentSortingGroupId |-> 0, cards |-> <<>>,
     pc |-> "getGroups", then |-> "authChecked", pending |-> {},
     fetched |-> <<>>,
     isAuthChecking |-> TRUE, isAuthRequired |-> FALSE, isAuthenticated |-> TRUE,
     loginLoading |-> FALSE, loginError |-> FALSE,
     loaded |-> <<>>, dragging |-> FALSE,
     openAddGroup |-> FALSE, newGroup |-> [name |-> "", order_num |-> 0],
     openAddSite |-> FALSE,
     newSite |-> [name |-> "", url |-> "", order_num |-> 0, group_id |-> 0]]

\* fetchData, up to its first await
fetchData(u, then) ==
    [u EXCEPT !.loading = TRUE, !.error = FALSE, !.pc = "getGroups",
              !.then = then]

Dashboard(s) == ui[s].open

\* The dashboard of the session is there for the user to act on.
OnScreen(s) == Dashboard(s) /\ DashboardShown(ui[s])

\* What the caller of fetchData does once fetchData returned.
Continue(u, then) ==
    IF then = "endSort"
    THEN [u EXCEPT !.sortMode = "None", !.currentSortingGroupId = 0]
    ELSE IF then = "closeAddGroup" THEN [u EXCEPT !.openAddGroup = FALSE]
    ELSE IF then = "closeAddSite" THEN [u EXCEPT !.openAddSite = FALSE]
    ELSE IF then = "authChecked" THEN [u EXCEPT !.isAuthChecking = FALSE]
    ELSE IF then = "loggedIn" THEN [u EXCEPT !.loginLoading = FALSE]
    ELSE u

SetUi(s, u) == ui' = [ui EXCEPT ![s] = Render(ui[s], u)]

\* api.getGroups() answers.
FetchGroups(s) ==
    /\ Dashboard(s) /\ ui[s].pc = "getGroups"
    /\ \E body \in getGroups(groups) :
          SetUi(s, [ui[s] EXCEPT
                      !.pc = "getSites",
                      !.fetched = [i \in DOMAIN body |-> body[i] @@ [sites |-> <<>>]],
                      !.pending = DOMAIN body])
    /\ UNCHANGED <<storeVars, txn, last, calls, env, now, mock>>

\* One api.getSites(group.id) of the Promise.all answers.
FetchSites(s, i) ==
    /\ Dashboard(s) /\ ui[s].pc = "getSites" /\ i \in ui[s].pending
    /\ \E body \in getSites(sites, ui[s].fetched[i].id) :
          SetUi(s, [ui[s] EXCEPT !.fetched[i].sites = body,
                                 !.pending = @ \ {i}])
    /\ UNCHANGED <<storeVars, txn, last, calls, env, now, mock>>

\* setGroups(groupsWithSites), finally setLoading(false), and what the
\* caller of fetchData does next.
FetchDone(s) ==
    /\ Dashboard(s) /\ ui[s].pc = "getSites" /\ ui[s].pending = {}
    /\ LET u == [ui[s] EXCEPT !.groups = ui[s].fetched, !.fetched = <<>>,
                              !.loaded = ui[s].fetched,
                              !.loading = FALSE, !.pc = "idle", !.then = "none"]
       IN  SetUi(s, Continue(u, ui[s].then))
    /\ UNCHANGED <<storeVars, txn, last, calls, env, now, mock>>

\* A start button that is there in every mode.
startGroupSort_FromAnyMode(s) ==
    /\ OnScreen(s)
    /\ SetUi(s, [ui[s] EXCEPT !.sortMode = "GroupSort",
                              !.currentSortingGroupId = 0])
    /\ UNCHANGED <<storeVars, txn, last, calls, env, now, mock>>

startGroupSort(s) ==
    /\ OnScreen(s) /\ ui[s].sortMode = "None"
    /\ SetUi(s, [ui[s] EXCEPT !.sortMode = "GroupSort",
                              !.currentSortingGroupId = 0])
    /\ UNCHANGED <<storeVars, txn, last, calls, env, now, mock>>

startSiteSort(s, i) ==
    /\ OnScreen(s) /\ CardsMounted(ui[s]) /\ ui[s].sortMode = "None"
    /\ i \in DOMAIN ui[s].groups
    /\ SetUi(s, [ui[s] EXCEPT !.sortMode = "SiteSort",
                              !.currentSortingGroupId = ui[s].groups[i].id])
    /\ UNCHANGED <<storeVars, txn, last, calls, env, now, mock>>

\* A cancel that also fetches the data again.
cancelSort_Refetches(s) ==
    /\ OnScreen(s) /\ ui[s].sortMode # "None"
    /\ SetUi(s, fetchData([ui[s] EXCEPT !.sortMode = "None",
                                        !.currentSortingGroupId = 0], "none"))
    /\ UNCHANGED <<storeVars, txn, last, calls, env, now, mock>>

cancelSort(s) ==
    /\ OnScreen(s) /\ ui[s].sortMode # "None"
    /\ SetUi(s, [ui[s] EXCEPT !.sortMode = "None",
                              !.currentSortingGroupId = 0])
    /\ UNCHANGED <<storeVars, txn, last, calls, env, now, mock>>

\* A drag that also sends the new order to the server at once.
handleDragEnd_Saves(s, from, to) ==
    /\ OnScreen(s) /\ ListShown(ui[s]) /\ ui[s].sortMode = "GroupSort"
    /\ ui[s].dragging
    /\ from \in DOMAIN ui[s].groups /\ to \in DOMAIN ui[s].groups
    /\ from # to
    /\ calls' = [calls EXCEPT ![s] =
                   OrderRequest("PUT group-orders",
                                SaveOrders(Ids(arrayMove(ui[s].groups, from, to))))]
    /\ SetUi(s, [ui[s] EXCEPT !.groups = arrayMove(@, from, to),
                              !.dragging = FALSE,
                              !.pc = "updateGroupOrder"])
    /\ UNCHANGED <<storeVars, txn, last, env, now, mock>>

\* A sensor picked an item of the sortable list up: the gesture begins.
DragStart(s) ==
    /\ OnScreen(s) /\ ListShown(ui[s]) /\ ~ui[s].dragging
    /\ \/ ui[s].sortMode = "GroupSort" /\ ui[s].groups # <<>>
       \/ \E i \in DOMAIN ui[s].groups :
             /\ CardsMounted(ui[s]) /\ ui[s].sortMode = "SiteSort"
             /\ ui[s].currentSortingGroupId = ui[s].groups[i].id
             /\ ui[s].cards[i] # <<>>
    /\ SetUi(s, [ui[s] EXCEPT !.dragging = TRUE])
    /\ UNCHANGED <<storeVars, txn, last, calls, env, now, mock>>

\* The item picked up at `from` is dropped over the one at `to`.
handleDragEnd(s, from, to) ==
    /\ OnScreen(s) /\ ListShown(ui[s]) /\ ui[s].sortMode = "GroupSort"
    /\ ui[s].dragging
    /\ from \in DOMAIN ui[s].groups /\ to \in DOMAIN ui[s].groups
    /\ SetUi(s, [ui[s] EXCEPT
                    !.groups = IF from # to THEN arrayMove(@, from, to) ELSE @,
                    !.dragging = FALSE])
    /\ UNCHANGED <<storeVars, txn, last, calls, env, now, mock>>

\* The card of the group being sorted, by its place in the list.
EditingCard(u) ==
    {i \in DOMAIN u.groups :
        /\ CardsMounted(u) /\ u.sortMode = "SiteSort"
        /\ u.currentSortingGroupId = u.groups[i].id}

handleSiteDragEnd(s, from, to) ==
    /\ OnScreen(s)
    /\ ui[s].dragging
    /\ \E i \in EditingCard(ui[s]) :
          /\ from \in DOMAIN ui[s].cards[i] /\ to \in DOMAIN ui[s].cards[i]
          /\ SetUi(s, [ui[s] EXCEPT
                          !.cards[i] = IF from # to THEN arrayMove(@, from, to) ELSE @,
                          !.dragging = FALSE])
    /\ UNCHANGED <<storeVars, txn, last, calls, env, now, mock>>

\* handleSaveGroupOrder, up to its await: one async handler at a time.
handleSaveGroupOrder(s) ==
    /\ OnScreen(s) /\ ui[s].sortMode = "GroupSort" /\ ui[s].pc = "idle"
    /\ calls' = [calls EXCEPT ![s] =
                   OrderRequest("PUT group-orders", SaveOrders(Ids(ui[s].groups)))]
    /\ SetUi(s, [ui[s] EXCEPT !.pc = "updateGroupOrder"])
    /\ UNCHANGED <<storeVars, txn, last, env, now, mock>>

\* GroupCard.handleSaveSiteOrder -> App.handleSaveSiteOrder, up to its await
handleSaveSiteOrder(s) ==
    /\ OnScreen(s) /\ ui[s].pc = "idle"
    /\ \E i \in EditingCard(ui[s]) :
          calls' = [calls EXCEPT ![s] =
                      OrderRequest("PUT site-orders", SaveOrders(Ids(ui[s].cards[i])))]
    /\ SetUi(s, [ui[s] EXCEPT !.pc = "updateSiteOrder"])
    /\ UNCHANGED <<storeVars, txn, last, env, now, mock>>

\* The rest of a save handler once the router answered: fetchData and then
\* the end of the sort mode, or the error message.
SaveAnswered(s, success) ==
    SetUi(s, IF success THEN fetchData(ui[s], "endSort")
             ELSE [ui[s] EXCEPT !.error = TRUE, !.pc = "idle"])

SaveGroupOrderAnswered(s) ==
    /\ Dashboard(s) /\ ui[s].pc = "updateGroupOrder"
    /\ calls[s].pc = "sent"
    /\ RoutePutGroupOrders(calls[s].data)
    /\ calls' = [calls EXCEPT ![s].pc = "done"]
    /\ SaveAnswered(s, updateGroupOrder(groups, calls[s].data).ok)
    /\ UNCHANGED <<txn, env, now, mock>>

SaveSiteOrderAnswered(s) ==
    /\ Dashboard(s) /\ ui[s].pc = "updateSiteOrder"
    /\ calls[s].pc = "sent"
    /\ RoutePutSiteOrders(calls[s].data)
    /\ calls' = [calls EXCEPT ![s].pc = "done"]
    /\ SaveAnswered(s, updateSiteOrder(sites, calls[s].data).ok)
    /\ UNCHANGED <<txn, env, now, mock>>

\* request() throws: fetch rejected or the response was not ok. The save
\* handler lands in its catch block.
SaveRequestFails(s) ==
    /\ Dashboard(s) /\ ui[s].pc \in {"updateGroupOrder", "updateSiteOrder"}
    /\ calls[s].pc = "sent"
    /\ calls' = [calls EXCEPT ![s].pc = "done"]
    /\ SaveAnswered(s, FALSE)
    /\ UNCHANGED <<storeVars, txn, last, env, now, mock>>

\* Math.max(...values)
MaxOf(values) == CHOOSE m \in values : \A k \in values : k <= m

\* The "add group" button of the header, shown outside the sort modes. The
\* dialogs are modal.
handleOpenAddGroup(s) ==
    /\ OnScreen(s) /\ ui[s].sortMode = "None"
    /\ ~ui[s].openAddGroup /\ ~ui[s].openAddSite
    /\ SetUi(s, [ui[s] EXCEPT !.newGroup = [name |-> "", order_num |-> Len(ui[s].groups)],
                              !.openAddGroup = TRUE])
    /\ UNCHANGED <<storeVars, txn, last, calls, env, now, mock>>

handleCloseAddGroup(s) ==
    /\ OnScreen(s) /\ ui[s].openAddGroup
    /\ SetUi(s, [ui[s] EXCEPT !.openAddGroup = FALSE])
    /\ UNCHANGED <<storeVars, txn, last, calls, env, now, mock>>

\* onAddSite of the card of groups[i]
handleOpenAddSite(s, i) ==
    /\ OnScreen(s) /\ CardsMounted(ui[s]) /\ ui[s].sortMode = "None"
    /\ ~ui[s].openAddGroup /\ ~ui[s].openAddSite
    /\ i \in DOMAIN ui[s].groups
    /\ LET group == ui[s].groups[i]
           maxOrderNum ==
               IF Len(group.sites) # 0
               THEN MaxOf({group.sites[k].order_num : k \in DOMAIN group.sites}) + 1
               ELSE 0
       IN  SetUi(s, [ui[s] EXCEPT
                       !.newSite = [name |-> "", url |-> "",
                                    order_num |-> maxOrderNum,
                                    group_id |-> group.id],
                       !.openAddSite = TRUE])
    /\ UNCHANGED <<storeVars, txn, last, calls, env, now, mock>>

handleCloseAddSite(s) ==
    /\ OnScreen(s) /\ ui[s].openAddSite
    /\ SetUi(s, [ui[s] EXCEPT !.openAddSite = FALSE])
    /\ UNCHANGED <<storeVars, txn, last, calls, env, now, mock>>

\* Requests of a client that is not a dashboard of the model.
OtherDeleteGroup(s, id) ==
    /\ ~Dashboard(s)
    /\ RouteDeleteGroup(id)
    /\ UNCHANGED <<txn, calls, hostVars>>

OtherDeleteSite(s, id) ==
    /\ ~Dashboard(s)
    /\ RouteDeleteSite(id)
    /\ UNCHANGED <<txn, calls, hostVars>>

\* Groups and sites numbered 0..n-1, the sites all in group 1.
DenseGroups == [id \in GroupIds |-> [order_num |-> id - 1]]

DenseSites == [id \in SiteIds |-> [group_id |-> 1, order_num |-> id - 1]]

\* Session A has just opened the dashboard.
InitClient ==
    /\ groups = DenseGroups /\ sites = DenseSites
    /\ nextGroupId = MaxGroups + 1 /\ nextSiteId = MaxSites + 1
    /\ txn = NoTxn
    /\ calls = [s \in Sessions |-> NoRequest]
    /\ env = EnvUnset /\ now = 0 /\ mock = MockData
    /\ ui = [s \in Sessions |-> IF s = "A" THEN OpenedUi ELSE NoUi[s]]
    /\ last = [route |-> "init", status |-> 200]

NextClient ==
    \/ \E s \in Sessions : FetchGroups(s)
    \/ \E s \in Sessions, i \in 1..MaxGroups : FetchSites(s, i)
    \/ \E s \in Sessions : FetchDone(s)
    \/ \E s \in Sessions : startGroupSort(s)
    \/ \E s \in Sessions, i \in 1..MaxGroups : startSiteSort(s, i)
    \/ \E s \in Sessions : cancelSort(s)
    \/ \E s \in Sessions : DragStart(s)
    \/ \E s \in Sessions, from, to \in 1..MaxGroups : handleDragEnd(s, from, to)
    \/ \E s \in Sessions, from, to \in 1..MaxSites : handleSiteDragEnd(s, from, to)
    \/ \E s \in Sessions : handleSaveGroupOrder(s)
    \/ \E s \in Sessions : handleSaveSiteOrder(s)
    \/ \E s \in Sessions : SaveGroupOrderAnswered(s)
    \/ \E s \in Sessions : SaveSiteOrderAnswered(s)
    \/ \E s \in Sessions : SaveRequestFails(s)
    \/ \E s \in Sessions, id \in GroupIds : OtherDeleteGroup(s, id)
    \/ \E s \in Sessions, id \in SiteIds : OtherDeleteSite(s, id)

SpecClient == InitClient /\ [][NextClient]_vars

\* The dashboard of session A alone with the store: its reorder sessions
\* without requests of other clients in between.
NextSort ==
    \/ \E s \in Sessions : FetchGroups(s)
    \/ \E s \in Sessions, i \in 1..MaxGroups : FetchSites(s, i)
    \/ \E s \in Sessions : FetchDone(s)
    \/ \E s \in Sessions : startGroupSort(s)
    \/ \E s \in Sessions, i \in 1..MaxGroups : startSiteSort(s, i)
    \/ \E s \in Sessions : cancelSort(s)
    \/ \E s \in Sessions : DragStart(s)
    \/ \E s \in Sessions, from, to \in 1..MaxGroups : handleDragEnd(s, from, to)
    \/ \E s \in Sessions, from, to \in 1..MaxSites : handleSiteDragEnd(s, from, to)
    \/ \E s \in Sessions : handleSaveGroupOrder(s)
    \/ \E s \in Sessions : handleSaveSiteOrder(s)
    \/ \E s \in Sessions : SaveGroupOrderAnswered(s)
    \/ \E s \in Sessions : SaveSiteOrderAnswered(s)
    \/ \E s \in Sessions : SaveRequestFails(s)

SpecSort == InitClient /\ [][NextSort]_vars

\* order_num runs over 0..n-1 in a scope of n rows, each value once.
Contiguous(tbl, scope) ==
    /\ {tbl[id].order_num : id \in scope} = 0..(Cardinality(scope) - 1)
    /\ \A a, b \in scope : a # b => tbl[a].order_num # tbl[b].order_num

\* C4: right after a Save of handleSaveGroupOrder or handleSaveSiteOrder
\* that the server applied, the order_num values of all entities of the
\* scope (all groups; the sites of the group being sorted) are exactly
\* 0..n-1, without gap or duplicate.
C4_ContiguousAfterSave ==
    [][\A s \in Sessions :
          /\ (/\ ui[s].open /\ ui[s].pc = "updateGroupOrder"
              /\ ui'[s].pc = "getGroups")
             => Contiguous(groups', DOMAIN groups')
          /\ (/\ ui[s].open /\ ui[s].pc = "updateSiteOrder"
              /\ ui'[s].pc = "getGroups")
             => Contiguous(sites', SitesOf(sites', ui[s].currentSortingGroupId))
      ]_vars

\* Session A has just opened the dashboard on a store of any groups and
\* sites, and opens and closes the add dialogs.
InitDialog ==
    /\ groups \in GroupTables /\ sites \in SiteTables(groups)
    /\ nextGroupId = MaxGroups + 1 /\ nextSiteId = MaxSites + 1
    /\ txn = NoTxn
    /\ calls = [s \in Sessions |-> NoRequest]
    /\ env = EnvUnset /\ now = 0 /\ mock = MockData
    /\ ui = [s \in Sessions |-> IF s = "A" THEN OpenedUi ELSE NoUi[s]]
    /\ last = [route |-> "init", status |-> 200]

NextDialog ==
    \/ \E s \in Sessions : FetchGroups(s)
    \/ \E s \in Sessions, i \in 1..MaxGroups : FetchSites(s, i)
    \/ \E s \in Sessions : FetchDone(s)
    \/ \E s \in Sessions : handleOpenAddGroup(s)
    \/ \E s \in Sessions : handleCloseAddGroup(s)
    \/ \E s \in Sessions, i \in 1..MaxGroups : handleOpenAddSite(s, i)
    \/ \E s \in Sessions : handleCloseAddSite(s)

SpecDialog == InitDialog /\ [][NextDialog]_vars

\* The next free position of a set of order_num values.
AppendPosition(orders) == IF orders = {} THEN 0 ELSE MaxOf(orders) + 1

\* C14: when an add dialog opens, the order_num it proposes is
\* appendPosition of the scope as the dashboard holds it: 0 for an empty
\* scope, k+1 when the largest order_num of the scope is k; for the groups
\* and for the sites of each group.
C14_AppendPosition ==
    [][\A s \in Sessions :
          /\ (ui[s].open /\ ~ui[s].openAddGroup /\ ui'[s].openAddGroup)
             => ui'[s].newGroup.order_num =
                   AppendPosition({ui[s].groups[i].order_num : i \in DOMAIN ui[s].groups})
          /\ (ui[s].open /\ ~ui[s].openAddSite /\ ui'[s].openAddSite)
             => \E i \in DOMAIN ui[s].groups :
                   /\ ui[s].groups[i].id = ui'[s].newSite.group_id
                   /\ ui'[s].newSite.order_num =
                         AppendPosition({ui[s].groups[i].sites[k].order_num :
                                            k \in DOMAIN ui[s].groups[i].sites})
      ]_vars

\* No request was sent, started or answered in this step.
NoServerCall(s) ==
    /\ UNCHANGED <<storeVars, last, calls>>
    /\ ui'[s].pc = ui[s].pc

\* A drag ended: the list stays on screen in the same reorder mode and the
\* staged copy of the groups or of a card's sites changed.
DragStep(s) ==
    /\ ui[s].open /\ ListShown(ui[s]) /\ ListShown(ui'[s])
    /\ ui[s].sortMode # "None" /\ ui'[s].sortMode = ui[s].sortMode
    /\ \/ ui'[s].groups # ui[s].groups
       \/ ui'[s].cards # ui[s].cards

\* C15: during a reorder session every drag changes only the client's
\* staged copy: the step sends no request, and the tables of the server
\* (what any later fetch returns) stay as they are.
C15_DragIsLocal ==
    [][\A s \in Sessions : DragStep(s) => NoServerCall(s)]_vars

\* Session A dragged the groups into another order and nothing was sent.
C15_Witness ==
    /\ ui["A"].sortMode = "GroupSort"
    /\ Ids(ui["A"].groups) # Ids(ui["A"].loaded)
    /\ calls["A"] = NoRequest
    /\ groups = DenseGroups /\ sites = DenseSites

\* The reorder mode is left, and not by the end of a Save's re-fetch.
CancelStep(s) ==
    /\ ui[s].open
    /\ ui[s].sortMode # "None" /\ ui'[s].sortMode = "None"
    /\ ~(ui[s].pc = "getSites" /\ ui'[s].pc = "idle")

C17_CancelShowsCommitted ==
    [][\A s \in Sessions : CancelStep(s) => ui'[s].groups = ui'[s].loaded]_vars

\* C18: when the request of a Save fails, the dashboard shows the error and
\* leaves the reorder mode: it is Idle, or re-fetching on its way to Idle.
C18_SaveFailureEndsSession ==
    [][\A s \in Sessions :
          (/\ ui[s].open
           /\ ui[s].pc \in {"updateGroupOrder", "updateSiteOrder"}
           /\ ~ui[s].error /\ ui'[s].error)
          => \/ ui'[s].sortMode = "None"
             \/ ui'[s].pc = "getGroups"]_vars

\* One mode at a time, with the id of the group being sorted set exactly
\* in SiteSort.
ModeInv ==
    \A s \in Sessions :
        ui[s].open =>
            /\ ui[s].sortMode \in {"None", "GroupSort", "SiteSort"}
            /\ (ui[s].currentSortingGroupId # 0) <=> (ui[s].sortMode = "SiteSort")

\* C19: the dashboard is in exactly one of None, GroupSort and SiteSort;
\* currentSortingGroupId is set exactly when the mode is SiteSort; and a
\* reorder mode is entered from None only.
C19_OneMode ==
    /\ []ModeInv
    /\ [][\A s \in Sessions :
            (/\ ui[s].open
             /\ ui'[s].sortMode # ui[s].sortMode
             /\ ui'[s].sortMode # "None")
            => ui[s].sortMode = "None"]_vars

\* Session A sorts the sites of its second group after a cancelled session.
C19_Witness ==
    /\ ui["A"].sortMode = "SiteSort"
    /\ ui["A"].currentSortingGroupId = 2
    /\ Ids(ui["A"].groups) # Ids(ui["A"].loaded)

\* The sites fetched last for the group `id`.
LoadedSites(u, id) ==
    LET i == CHOOSE i \in DOMAIN u.loaded : u.loaded[i].id = id
    IN  u.loaded[i].sites

\* C20: when a reorder mode is entered from None, the staged copy (the
\* groups in GroupSort, the sites of the card in SiteSort) is the data the
\* dashboard fetched last, whatever earlier sessions dragged.
C20_StagedIsCommitted ==
    [][\A s \in Sessions :
          (ui[s].open /\ ui[s].sortMode = "None" /\ ui'[s].sortMode # "None")
          => /\ ui'[s].sortMode = "GroupSort"
                => ui'[s].groups = ui'[s].loaded
             /\ \A i \in EditingCard(ui'[s]) :
                   ui'[s].cards[i] = LoadedSites(ui'[s], ui'[s].groups[i].id)
      ]_vars

\* C21: after a Save whose reorder request succeeded, the re-fetch starts
\* when that request completes, the mode is not None while the re-fetch is
\* still running, and when it ends the mode becomes None and the dashboard
\* shows the groups and sites just read back.
C21_SaveFetchIdle ==
    [][\A s \in Sessions :
          ui[s].open =>
            /\ (ui[s].then # "endSort" /\ ui'[s].then = "endSort")
               => /\ calls[s].pc = "sent" /\ calls'[s].pc = "done"
                  /\ ui'[s].pc = "getGroups"
            /\ ui'[s].then = "endSort" => ui'[s].sortMode # "None"
            /\ (ui[s].then = "endSort" /\ ui'[s].then # "endSort")
               => /\ ui[s].pending = {}
                  /\ ui'[s].sortMode = "None"
                  /\ ui'[s].groups = ui[s].fetched
      ]_vars

\* The request of a Save is on its way and its answer has not arrived.
SaveInFlight(u) == u.pc \in {"updateGroupOrder", "updateSiteOrder"}

\* C22: while the request of a Save is in flight, before and after the
\* step, the dashboard neither leaves its reorder mode nor drops the
\* staged order: a Cancel waits for the outcome of the request.
C22_CancelWaitsForSave ==
    [][\A s \in Sessions :
          (ui[s].open /\ SaveInFlight(ui[s]) /\ SaveInFlight(ui'[s]))
          => /\ ui'[s].sortMode = ui[s].sortMode
             /\ ui'[s].currentSortingGroupId = ui[s].currentSortingGroupId
      ]_vars

\* C23: no reorder request is issued from a state in which a drag is in
\* progress: between drag start and drag end the Save action is disabled.
C23_NoSaveWhileDragging ==
    [][\A s \in Sessions :
          (/\ ui[s].open
           /\ calls'[s] # calls[s] /\ calls'[s].pc = "sent")
          => ~ui[s].dragging]_vars

\* The same entities, each once, in some order.
IsPermutation(a, b) ==
    /\ Len(a) = Len(b)
    /\ {a[i].id : i \in DOMAIN a} = {b[i].id : i \in DOMAIN b}
    /\ \A i, j \in DOMAIN a : i # j => a[i].id # a[j].id

\* The assignments give the ids, each once, the positions 0..n-1 in turn.
PositionsInTurn(data) ==
    /\ \A i \in DOMAIN data : data[i].order_num = i - 1
    /\ \A i, j \in DOMAIN data : i # j => data[i].id # data[j].id

\* C29: a drag-end leaves the staged list (the groups, the sites of a card)
\* a permutation of what it was, so through a whole session it holds the
\* ids it started with, each once; and the assignments a Save sends have
\* distinct ids at the positions 0..n-1.
C29_StagedIsPermutation ==
    [][\A s \in Sessions :
          /\ DragStep(s)
             => /\ IsPermutation(ui'[s].groups, ui[s].groups)
                /\ \A i \in DOMAIN ui[s].cards :
                      IsPermutation(ui'[s].cards[i], ui[s].cards[i])
          /\ (/\ ui[s].open /\ calls'[s] # calls[s] /\ calls'[s].pc = "sent"
              /\ IsOrderRoute(calls'[s].route))
             => /\ PositionsInTurn(calls'[s].data)
                /\ calls'[s].route = "PUT group-orders"
                      => Ids(calls'[s].data) = Ids(ui[s].groups)
                /\ calls'[s].route = "PUT site-orders"
                      => \E i \in EditingCard(ui[s]) :
                            Ids(calls'[s].data) = Ids(ui[s].cards[i])
      ]_vars

\* Session A dragged the sites of group 1 into another order and pressed
\* Save.
C29_Witness ==
    /\ ui["A"].pc = "updateSiteOrder" /\ calls["A"].pc = "sent"
    /\ ui["A"].currentSortingGroupId = 1
    /\ Len(calls["A"].data) = MaxSites
    /\ Ids(calls["A"].data) # Ids(LoadedSites(ui["A"], 1))

(* ---------------- the in-memory store of the development mode ---------- *)
\* array.splice(index, 1)
Splice(list, index) ==
    [i \in 1..(Len(list) - 1) |-> IF i < index THEN list[i] ELSE list[i + 1]]

\* array.findIndex(x => x.id === id), 0 for -1
FindIndex(list, id) ==
    IF \E i \in DOMAIN list : list[i].id = id
    THEN CHOOSE i \in DOMAIN list :
            list[i].id = id /\ \A j \in DOMAIN list : list[j].id = id => i <= j
    ELSE 0

\* Math.max(0, ...list.map(x => x.id || 0)) + 1
MockNextId(list) ==
    LET ids == {0} \cup {list[i].id : i \in DOMAIN list} IN
    (CHOOSE m \in ids : \A k \in ids : k <= m) + 1

\* mockSites.filter(site => site.group_id === groupId)
MockSitesOf(list, groupId) == SelectSeq(list, LAMBDA site : site.group_id = groupId)

\* { ...old, ...patch }
Spread(old, patch) ==
    [f \in DOMAIN old \cup DOMAIN patch |->
        IF f \in DOMAIN patch THEN patch[f] ELSE old[f]]

MockUnchangedRest == UNCHANGED <<storeVars, txn, calls, env, now, ui>>

MockCreateGroup(order_num) ==
    /\ MockNextId(mock.groups) <= MaxGroups
    /\ LET newGroup == [id |-> MockNextId(mock.groups), order_num |-> order_num] IN
          /\ mock' = [mock EXCEPT !.groups = Append(@, newGroup)]
          /\ last' = [route |-> "mock.createGroup", result |-> newGroup]
    /\ MockUnchangedRest

MockDeleteGroup(id) ==
    /\ LET index == FindIndex(mock.groups, id) IN
          IF index = 0
          THEN /\ UNCHANGED mock
               /\ last' = [route |-> "mock.deleteGroup", id |-> id, result |-> FALSE]
          ELSE /\ mock' = [mock EXCEPT !.groups = Splice(@, index)]
               /\ last' = [route |-> "mock.deleteGroup", id |-> id, result |-> TRUE]
    /\ MockUnchangedRest

MockGetSites(groupId) ==
    /\ last' = [route |-> "mock.getSites", groupId |-> groupId,
                result |-> MockSitesOf(mock.sites, groupId)]
    /\ UNCHANGED mock
    /\ MockUnchangedRest

MockCreateSite(group_id, order_num) ==
    /\ MockNextId(mock.sites) <= MaxSites
    /\ LET newSite == [id |-> MockNextId(mock.sites), group_id |-> group_id,
                       order_num |-> order_num] IN
          /\ mock' = [mock EXCEPT !.sites = Append(@, newSite)]
          /\ last' = [route |-> "mock.createSite", result |-> newSite]
    /\ MockUnchangedRest

MockUpdateSite(id, site) ==
    /\ LET index == FindIndex(mock.sites, id) IN
          IF index = 0
          THEN /\ UNCHANGED mock
               /\ last' = [route |-> "mock.updateSite", id |-> id, found |-> FALSE]
          ELSE /\ mock' = [mock EXCEPT !.sites[index] = Spread(@, site)]
               /\ last' = [route |-> "mock.updateSite", id |-> id, found |-> TRUE]
    /\ MockUnchangedRest

MockDeleteSite(id) ==
    /\ LET index == FindIndex(mock.sites, id) IN
          IF index = 0
          THEN /\ UNCHANGED mock
               /\ last' = [route |-> "mock.deleteSite", id |-> id, result |-> FALSE]
          ELSE /\ mock' = [mock EXCEPT !.sites = Splice(@, index)]
               /\ last' = [route |-> "mock.deleteSite", id |-> id, result |-> TRUE]
    /\ MockUnchangedRest

\* The module has just been loaded; the D1 tables play no part.
InitMock ==
    /\ mock = MockData
    /\ groups = <<>> /\ sites = <<>>
    /\ nextGroupId = 1 /\ nextSiteId = 1
    /\ txn = NoTxn
    /\ calls = [s \in Sessions |-> NoRequest]
    /\ env = EnvUnset /\ now = 0 /\ ui = NoUi
    /\ last = [route |-> "init", status |-> 200]

\* The calls of a dashboard: new entities at position 0, sites moved between
\* groups.
NextMock ==
    \/ MockCreateGroup(0)
    \/ \E id \in GroupIds : MockDeleteGroup(id)
    \/ \E groupId \in GroupIds : MockGetSites(groupId)
    \/ \E group_id \in GroupIds : MockCreateSite(group_id, 0)
    \/ \E id \in SiteIds, site \in [group_id : GroupIds] : MockUpdateSite(id, site)
    \/ \E id \in SiteIds : MockDeleteSite(id)

SpecMock == InitMock /\ [][NextMock]_vars

\* C12: deleting a group removes every site of that group, so that getSites
\* for the group returns the empty list afterwards; the sites of other groups
\* stay as they are.
C12_DeleteGroupCascades ==
    [][\A id \in GroupIds :
          (/\ last'.route = "mock.deleteGroup" /\ last'.id = id
           /\ last'.result)
          => /\ MockSitesOf(mock'.sites, id) = <<>>
             /\ \A g \in GroupIds \ {id} :
                   MockSitesOf(mock'.sites, g) = MockSitesOf(mock.sites, g)]_vars

\* C13: in every reachable store state every site's group_id is the id of a
\* group that exists.
C13_SitesReferenceGroups ==
    \A i \in DOMAIN mock.sites :
        \E j \in DOMAIN mock.groups : mock.groups[j].id = mock.sites[i].group_id

\* Ascending by order_num, rows of equal order_num ascending by id.
SortedByOrderThenId(rows) ==
    \A i, j \in DOMAIN rows :
        i < j => \/ rows[i].order_num < rows[j].order_num
                 \/ /\ rows[i].order_num = rows[j].order_num
                    /\ rows[i].id < rows[j].id

\* C25: what getGroups and getSites return is sorted ascending by
\* order_num, rows of equal order_num ascending by id, in the D1 store and
\* in the store of the development mode alike.
C25_ListOrdered ==
    /\ last.route \in {"GET groups", "GET sites"} => SortedByOrderThenId(last.body)
    /\ last.route = "mock.getSites" => SortedByOrderThenId(last.result)

(* ------------------------- requests for one id ------------------------ *)
ByIdRequests ==
    {[route |-> r, id |-> id, pc |-> "sent"] :
        r \in {"GET group", "DELETE groups"}, id \in GroupIds}
    \cup {[route |-> "PUT groups", id |-> id, data |-> d, pc |-> "sent"] :
             id \in GroupIds, d \in [order_num : 0..MaxOrder]}
    \cup {[route |-> r, id |-> id, pc |-> "sent"] :
             r \in {"GET site", "DELETE sites"}, id \in SiteIds}
    \cup {[route |-> "PUT sites", id |-> id, data |-> d, pc |-> "sent"] :
             id \in SiteIds, d \in [group_id : GroupIds]}

\* One request for a group or a site by its id is on its way to a store of
\* any groups and sites.
InitById ==
    /\ groups \in GroupTables /\ sites \in SiteTables(groups)
    /\ nextGroupId = MaxGroups + 1 /\ nextSiteId = MaxSites + 1
    /\ txn = NoTxn
    /\ \E r \in ByIdRequests :
          calls = [s \in Sessions |-> IF s = "A" THEN r ELSE NoRequest]
    /\ BareHost
    /\ last = [route |-> "init", status |-> 200]

Served(s, route) ==
    /\ calls[s].route = route /\ calls[s].pc = "sent"
    /\ calls' = [calls EXCEPT ![s].pc = "done"]
    /\ UNCHANGED <<txn, hostVars>>

ServeGetGroup(s) == Served(s, "GET group") /\ RouteGetGroup(calls[s].id)

ServePutGroup(s) ==
    Served(s, "PUT groups") /\ RoutePutGroup(calls[s].id, calls[s].data.order_num)

ServeDeleteGroupById(s) == Served(s, "DELETE groups") /\ RouteDeleteGroup(calls[s].id)

ServeGetSite(s) == Served(s, "GET site") /\ RouteGetSite(calls[s].id)

ServePutSite(s) == Served(s, "PUT sites") /\ RoutePutSite(calls[s].id, calls[s].data)

ServeDeleteSite(s) == Served(s, "DELETE sites") /\ RouteDeleteSite(calls[s].id)

NextById ==
    \/ \E s \in Sessions : ServeGetGroup(s)
    \/ \E s \in Sessions : ServePutGroup(s)
    \/ \E s \in Sessions : ServeDeleteGroupById(s)
    \/ \E s \in Sessions : ServeGetSite(s)
    \/ \E s \in Sessions : ServePutSite(s)
    \/ \E s \in Sessions : ServeDeleteSite(s)

SpecById == InitById /\ [][NextById]_vars

\* The request names an id without a row in its table.
MissingId(r) ==
    \/ r.route \in {"GET group", "PUT groups", "DELETE groups"}
          /\ r.id \notin DOMAIN groups
    \/ r.route \in {"GET site", "PUT sites", "DELETE sites"}
          /\ r.id \notin DOMAIN sites

\* C26: for an id without a row, get-by-id and update answer null, delete
\* answers false, none of them throws (no 500), and the store stays as it
\* is.
C26_MissingIdSoftFails ==
    [][\A s \in Sessions :
          (calls[s].pc = "sent" /\ calls'[s].pc = "done" /\ MissingId(calls[s]))
          => /\ last'.status = 200
             /\ UNCHANGED storeVars
             /\ calls[s].route \in {"GET group", "PUT groups", "GET site", "PUT sites"}
                   => ~last'.found
             /\ calls[s].route \in {"DELETE groups", "DELETE sites"}
                   => ~last'.success]_vars

(* ------------------- creating and editing in the dashboard ------------- *)
\* What a user can type into the name and url fields of the add dialogs.
Names == {"", "nav"}

Urls == {"", "https://nav"}

\* handleGroupInputChange, for the name field
handleGroupInputChange(s, name) ==
    /\ OnScreen(s) /\ ui[s].openAddGroup
    /\ SetUi(s, [ui[s] EXCEPT !.newGroup.name = name])
    /\ UNCHANGED <<storeVars, txn, last, calls, env, now, mock>>

\* handleSiteInputChange, for the name and url fields
handleSiteInputChange(s, name, url) ==
    /\ OnScreen(s) /\ ui[s].openAddSite
    /\ SetUi(s, [ui[s] EXCEPT !.newSite.name = name, !.newSite.url = url])
    /\ UNCHANGED <<storeVars, txn, last, calls, env, now, mock>>

\* handleCreateGroup, up to its return or its first await
handleCreateGroup(s) ==
    /\ OnScreen(s) /\ ui[s].openAddGroup /\ ui[s].pc = "idle"
    /\ IF ui[s].newGroup.name = ""
       THEN /\ SetUi(s, [ui[s] EXCEPT !.error = TRUE])
            /\ UNCHANGED calls
       ELSE /\ calls' = [calls EXCEPT ![s] =
                           OrderRequest("POST groups", ui[s].newGroup)]
            /\ SetUi(s, [ui[s] EXCEPT !.pc = "createGroup"])
    /\ UNCHANGED <<storeVars, txn, last, env, now, mock>>

\* handleCreateSite, up to its return or its first await
handleCreateSite(s) ==
    /\ OnScreen(s) /\ ui[s].openAddSite /\ ui[s].pc = "idle"
    /\ IF ui[s].newSite.name = "" \/ ui[s].newSite.url = ""
       THEN /\ SetUi(s, [ui[s] EXCEPT !.error = TRUE])
            /\ UNCHANGED calls
       ELSE /\ calls' = [calls EXCEPT ![s] =
                           OrderRequest("POST sites", ui[s].newSite)]
            /\ SetUi(s, [ui[s] EXCEPT !.pc = "createSite"])
    /\ UNCHANGED <<storeVars, txn, last, env, now, mock>>

\* The site `k` of the group `i` as the dashboard shows it, with no modal
\* dialog in front of it.
ShownSite(u, i, k) ==
    /\ CardsMounted(u) /\ u.sortMode = "None"
    /\ ~u.openAddGroup /\ ~u.openAddSite
    /\ i \in DOMAIN u.groups /\ k \in DOMAIN u.groups[i].sites

\* handleSiteUpdate with the site of the settings dialog, up to its await
handleSiteUpdate(s, i, k) ==
    /\ OnScreen(s) /\ ui[s].pc = "idle" /\ ShownSite(ui[s], i, k)
    /\ LET updatedSite == ui[s].groups[i].sites[k] IN
          calls' = [calls EXCEPT ![s] =
                      [route |-> "PUT sites", id |-> updatedSite.id,
                       data |-> [group_id |-> updatedSite.group_id,
                                 order_num |-> updatedSite.order_num],
                       pc |-> "sent"]]
    /\ SetUi(s, [ui[s] EXCEPT !.pc = "updateSite"])
    /\ UNCHANGED <<storeVars, txn, last, env, now, mock>>

\* handleSiteDelete, up to its await
handleSiteDelete(s, i, k) ==
    /\ OnScreen(s) /\ ui[s].pc = "idle" /\ ShownSite(ui[s], i, k)
    /\ calls' = [calls EXCEPT ![s] =
                   [route |-> "DELETE sites", id |-> ui[s].groups[i].sites[k].id,
                    pc |-> "sent"]]
    /\ SetUi(s, [ui[s] EXCEPT !.pc = "deleteSite"])
    /\ UNCHANGED <<storeVars, txn, last, env, now, mock>>

\* The rest of a handler once the router answered: request() throws on a
\* status that is not ok, and otherwise the handler goes on to fetchData
\* whatever the body says.
EditAnswered(s, then) ==
    SetUi(s, IF last'.status = 200 THEN fetchData(ui[s], then)
             ELSE [ui[s] EXCEPT !.error = TRUE, !.pc = "idle"])

CreateGroupAnswered(s) ==
    /\ Dashboard(s) /\ ui[s].pc = "createGroup" /\ calls[s].pc = "sent"
    /\ RoutePostGroups(calls[s].data)
    /\ calls' = [calls EXCEPT ![s].pc = "done"]
    /\ EditAnswered(s, "closeAddGroup")
    /\ UNCHANGED <<txn, env, now, mock>>

CreateSiteAnswered(s) ==
    /\ Dashboard(s) /\ ui[s].pc = "createSite" /\ calls[s].pc = "sent"
    /\ RoutePostSites(calls[s].data)
    /\ calls' = [calls EXCEPT ![s].pc = "done"]
    /\ EditAnswered(s, "closeAddSite")
    /\ UNCHANGED <<txn, env, now, mock>>

SiteUpdateAnswered(s) ==
    /\ Dashboard(s) /\ ui[s].pc = "updateSite" /\ calls[s].pc = "sent"
    /\ RoutePutSite(calls[s].id, calls[s].data)
    /\ calls' = [calls EXCEPT ![s].pc = "done"]
    /\ EditAnswered(s, "none")
    /\ UNCHANGED <<txn, env, now, mock>>

SiteDeleteAnswered(s) ==
    /\ Dashboard(s) /\ ui[s].pc = "deleteSite" /\ calls[s].pc = "sent"
    /\ RouteDeleteSite(calls[s].id)
    /\ calls' = [calls EXCEPT ![s].pc = "done"]
    /\ EditAnswered(s, "none")
    /\ UNCHANGED <<txn, env, now, mock>>

\* fetch itself rejects: the handler lands in its catch block.
EditRequestFails(s) ==
    /\ Dashboard(s)
    /\ ui[s].pc \in {"createGroup", "createSite", "updateSite", "deleteSite"}
    /\ calls[s].pc = "sent"
    /\ calls' = [calls EXCEPT ![s].pc = "done"]
    /\ SetUi(s, [ui[s] EXCEPT !.error = TRUE, !.pc = "idle"])
    /\ UNCHANGED <<storeVars, txn, last, env, now, mock>>

\* Create requests of a client that is not a dashboard of the model: any
\* JSON body.
OtherPostGroups(s, data) ==
    /\ ~Dashboard(s)
    /\ RoutePostGroups(data)
    /\ UNCHANGED <<txn, calls, hostVars>>

OtherPostSites(s, data) ==
    /\ ~Dashboard(s)
    /\ RoutePostSites(data)
    /\ UNCHANGED <<txn, calls, hostVars>>

\* Session A has just opened the dashboard on a store with one group and
\* one site in it.
InitCreate ==
    /\ groups = [id \in {1} |-> [order_num |-> 0]]
    /\ sites = [id \in {1} |-> [group_id |-> 1, order_num |-> 0]]
    /\ nextGroupId = 2 /\ nextSiteId = 2
    /\ txn = NoTxn
    /\ calls = [s \in Sessions |-> NoRequest]
    /\ env = EnvUnset /\ now = 0 /\ mock = MockData
    /\ ui = [s \in Sessions |-> IF s = "A" THEN OpenedUi ELSE NoUi[s]]
    /\ last = [route |-> "init", status |-> 200]

\* The add dialogs of the dashboard, next to clients that post on their own.
NextCreate ==
    \/ \E s \in Sessions : FetchGroups(s)
    \/ \E s \in Sessions, i \in 1..MaxGroups : FetchSites(s, i)
    \/ \E s \in Sessions : FetchDone(s)
    \/ \E s \in Sessions : handleOpenAddGroup(s)
    \/ \E s \in Sessions : handleCloseAddGroup(s)
    \/ \E s \in Sessions, name \in Names : handleGroupInputChange(s, name)
    \/ \E s \in Sessions : handleCreateGroup(s)
    \/ \E s \in Sessions : CreateGroupAnswered(s)
    \/ \E s \in Sessions, i \in 1..MaxGroups : handleOpenAddSite(s, i)
    \/ \E s \in Sessions : handleCloseAddSite(s)
    \/ \E s \in Sessions, name \in Names, url \in Urls :
          handleSiteInputChange(s, name, url)
    \/ \E s \in Sessions : handleCreateSite(s)
    \/ \E s \in Sessions : CreateSiteAnswered(s)
    \/ \E s \in Sessions : EditRequestFails(s)
    \/ \E s \in Sessions, name \in {"", Undefined} :
          OtherPostGroups(s, [name |-> name, order_num |-> 0])
    \/ \E s \in Sessions, name \in {"nav", Undefined} :
          OtherPostSites(s, [name |-> name, url |-> "",
                             group_id |-> 1, order_num |-> 0])

SpecCreate == InitCreate /\ [][NextCreate]_vars

\* The settings dialog of a site, next to clients that delete on their own.
NextEdit ==
    \/ \E s \in Sessions : FetchGroups(s)
    \/ \E s \in Sessions, i \in 1..MaxGroups : FetchSites(s, i)
    \/ \E s \in Sessions : FetchDone(s)
    \/ \E s \in Sessions, i \in 1..MaxGroups, k \in 1..MaxSites :
          handleSiteUpdate(s, i, k)
    \/ \E s \in Sessions : SiteUpdateAnswered(s)
    \/ \E s \in Sessions, i \in 1..MaxGroups, k \in 1..MaxSites :
          handleSiteDelete(s, i, k)
    \/ \E s \in Sessions : SiteDeleteAnswered(s)
    \/ \E s \in Sessions : EditRequestFails(s)
    \/ \E s \in Sessions, id \in SiteIds : OtherDeleteSite(s, id)

SpecEdit == InitClient /\ [][NextEdit]_vars

\* A required field of the create request is missing or empty.
MissingField(r) ==
    \/ r.data.name \in {"", Undefined}
    \/ r.route = "POST sites" /\ r.data.url \in {"", Undefined}

\* C27: a create request for a group without a name, or for a site without
\* a name or without a url, is answered with an error and inserts no row;
\* the dashboard's create button with such a field shows an error and
\* sends nothing.
C27_CreateValidated ==
    [][/\ (/\ last'.route \in {"POST groups", "POST sites"}
           /\ MissingField(last')
           /\ <<last, nextGroupId, nextSiteId>>' # <<last, nextGroupId, nextSiteId>>)
          => (last'.status # 200 /\ UNCHANGED storeVars)
       /\ \A s \in Sessions :
             (/\ ui[s].open /\ ui[s].pc = "idle" /\ ~ui[s].error /\ ui'[s].error)
             => UNCHANGED <<storeVars, calls>>]_vars

\* The request of the handler has had its effect on the table.
EffectDone(r) ==
    IF r.route = "PUT sites"
    THEN r.id \in DOMAIN sites' /\ sites'[r.id] = r.data
    ELSE r.id \notin DOMAIN sites'

\* C28: when the request of handleSiteUpdate or handleSiteDelete comes
\* back, by an answer or by a thrown error, without its effect on the
\* store, the store is as it was and the dashboard shows an error message:
\* no action ends without its effect or a message.
C28_FailureHasMessage ==
    [][\A s \in Sessions :
          (/\ ui[s].open /\ ui[s].pc \in {"updateSite", "deleteSite"}
           /\ calls[s].pc = "sent" /\ calls'[s].pc = "done"
           /\ ~EffectDone(calls[s]))
          => (ui'[s].error /\ UNCHANGED storeVars)]_vars

(* ----------------------- signing in and out ---------------------------- *)
\* A deployment with auth switched on.
AuthOn == [AUTH_ENABLED |-> "true", AUTH_USERNAME |-> "admin",
           AUTH_PASSWORD |-> "hunter2", AUTH_SECRET |-> "s3cret"]

\* App as it mounts: the effect has called checkAuthStatus, which waits for
\* api.checkAuthStatus().
MountedUi ==
    [OpenedUi EXCEPT !.pc = "checkAuthStatus", !.then = "none",
                     !.isAuthenticated = FALSE]

\* if (isAuthRequired && !isAuthenticated) return the login form
LoginFormShown(u) ==
    ~u.isAuthChecking /\ u.isAuthRequired /\ ~u.isAuthenticated

\* api.checkAuthStatus() answers with result.
AuthCheckAnswered(s, result) ==
    /\ Dashboard(s) /\ ui[s].pc = "checkAuthStatus"
    /\ SetUi(s, IF result
                THEN fetchData([ui[s] EXCEPT !.isAuthenticated = TRUE,
                                             !.isAuthRequired = FALSE],
                               "authChecked")
                ELSE [ui[s] EXCEPT !.isAuthenticated = FALSE,
                                   !.isAuthRequired = TRUE,
                                   !.isAuthChecking = FALSE, !.pc = "idle"])
    /\ UNCHANGED <<storeVars, txn, last, calls, env, now, mock>>

\* api.checkAuthStatus() rejects, with a message about authentication or
\* with another one.
AuthCheckThrows(s, authError) ==
    /\ Dashboard(s) /\ ui[s].pc = "checkAuthStatus"
    /\ SetUi(s, IF authError
                THEN [ui[s] EXCEPT !.isAuthenticated = FALSE,
                                   !.isAuthRequired = TRUE,
                                   !.isAuthChecking = FALSE, !.pc = "idle"]
                ELSE [ui[s] EXCEPT !.isAuthChecking = FALSE, !.pc = "idle"])
    /\ UNCHANGED <<storeVars, txn, last, calls, env, now, mock>>

\* A request of fetchData rejects: its catch block, its finally block, and
\* what the caller of fetchData does next.
FetchFails(s, authError) ==
    /\ Dashboard(s) /\ ui[s].pc \in {"getGroups", "getSites"}
    /\ LET u == [ui[s] EXCEPT !.error = TRUE, !.loading = FALSE,
                              !.fetched = <<>>, !.pending = {},
                              !.pc = "idle", !.then = "none"]
           v == IF authError
                THEN [u EXCEPT !.isAuthRequired = TRUE,
                               !.isAuthenticated = FALSE]
                ELSE u
       IN  SetUi(s, Continue(v, ui[s].then))
    /\ UNCHANGED <<storeVars, txn, last, calls, env, now, mock>>

\* The login form is submitted.
handleLogin(s, loginRequest) ==
    /\ Dashboard(s) /\ LoginFormShown(ui[s]) /\ ~ui[s].loginLoading
    /\ ui[s].pc = "idle"
    /\ calls' = [calls EXCEPT ![s] = [route |-> "POST login", pc |-> "sent",
                                      data |-> loginRequest]]
    /\ SetUi(s, [ui[s] EXCEPT !.loginLoading = TRUE, !.loginError = FALSE,
                              !.pc = "login"])
    /\ UNCHANGED <<storeVars, txn, last, env, now, mock>>

\* api.login answers.
LoginAnswered(s) ==
    /\ Dashboard(s) /\ ui[s].pc = "login" /\ calls[s].pc = "sent"
    /\ calls' = [calls EXCEPT ![s].pc = "done"]
    /\ LET result == login(env, now, calls[s].data) IN
       SetUi(s, IF result # Thrown /\ result.success
                THEN fetchData([ui[s] EXCEPT !.isAuthenticated = TRUE],
                               "loggedIn")
                ELSE [ui[s] EXCEPT !.loginError = TRUE,
                                   !.loginLoading = FALSE, !.pc = "idle"])
    /\ UNCHANGED <<storeVars, txn, last, env, now, mock>>

\* api.login rejects.
LoginRequestFails(s) ==
    /\ Dashboard(s) /\ ui[s].pc = "login" /\ calls[s].pc = "sent"
    /\ calls' = [calls EXCEPT ![s].pc = "done"]
    /\ SetUi(s, [ui[s] EXCEPT !.loginError = TRUE, !.loginLoading = FALSE,
                              !.pc = "idle"])
    /\ UNCHANGED <<storeVars, txn, last, env, now, mock>>

\* The logout button of the header, which is there outside the sort modes
\* while isAuthenticated.
handleLogout(s) ==
    /\ OnScreen(s) /\ ui[s].sortMode = "None" /\ ui[s].isAuthenticated
    /\ SetUi(s, [ui[s] EXCEPT !.isAuthenticated = FALSE])
    /\ UNCHANGED <<storeVars, txn, last, calls, env, now, mock>>

\* Session A has just mounted App in a deployment with auth switched on.
InitLogin ==
    /\ groups = DenseGroups /\ sites = DenseSites
    /\ nextGroupId = MaxGroups + 1 /\ nextSiteId = MaxSites + 1
    /\ txn = NoTxn
    /\ calls = [s \in Sessions |-> NoRequest]
    /\ env = AuthOn /\ now = 0 /\ mock = MockData
    /\ ui = [s \in Sessions |-> IF s = "A" THEN MountedUi ELSE NoUi[s]]
    /\ last = [route |-> "init", status |-> 200]

NextLogin ==
    \/ \E s \in Sessions, result \in BOOLEAN : AuthCheckAnswered(s, result)
    \/ \E s \in Sessions, authError \in BOOLEAN : AuthCheckThrows(s, authError)
    \/ \E s \in Sessions : FetchGroups(s)
    \/ \E s \in Sessions, i \in 1..MaxGroups : FetchSites(s, i)
    \/ \E s \in Sessions : FetchDone(s)
    \/ \E s \in Sessions, authError \in BOOLEAN : FetchFails(s, authError)
    \/ \E s \in Sessions, loginRequest \in LoginRequests :
          handleLogin(s, loginRequest)
    \/ \E s \in Sessions : LoginAnswered(s)
    \/ \E s \in Sessions : LoginRequestFails(s)
    \/ \E s \in Sessions : handleLogout(s)
    \/ \E s \in Sessions : startGroupSort(s)
    \/ \E s \in Sessions : cancelSort(s)
    \/ \E s \in Sessions : DragStart(s)
    \/ \E s \in Sessions, from, to \in 1..MaxGroups : handleDragEnd(s, from, to)

SpecLogin == InitLogin /\ [][NextLogin]_vars

\* C30: the dashboard is rendered only while the session counts as
\* authenticated: when a session stops being authenticated, as handleLogout
\* makes it, the client shows the login form and not the dashboard.
C30_LoginFormAfterLogout ==
    [][\A s \in Sessions :
          (/\ ui[s].open /\ ui[s].isAuthenticated
           /\ ui'[s].open /\ ~ui'[s].isAuthenticated)
          => (LoginFormShown(ui'[s]) /\ ~DashboardShown(ui'[s]))]_vars
====
